---------------------------- MODULE Spec2Model ----------------------------
(***************************************************************************)
(* Model of data/bits/bits.hh: make_bitmask, make_bitset, BitSlice<N, W>   *)
(* and the wrapper bits<N>; of container/ring_queue/ring_queue.hh:         *)
(* RingQueue<T>; of container/index_list/index_list.hh: IndexList<T>.      *)
(*                                                                         *)
(* A std::bitset<K> is the set of the positions of its 1 bits, a subset of *)
(* 0..K-1.  An unsigned long long is the set of its 1 bits, a subset of    *)
(* 0..63.  Widths are the real ones (the machine word is 64 bits), so the  *)
(* one-word and the multi-word paths of the code are the ones taken.       *)
(***************************************************************************)
EXTENDS Integers, FiniteSets, Sequences, TLC

VARIABLES
    N,        \* template parameter N of bits<N> / of the function called
    data,     \* bits<N>::data
    lo,       \* BitSlice<N, W>::lo of the slice bound to data
    W,        \* template parameter W of that slice
    op,       \* the operation performed last
    args,     \* its arguments
    pre,      \* the object (bits<N>::data, the queue, the list) before it
    ret,      \* the bitset it returned (conversions, make_bitmask)
    bit,      \* the bool it returned (operator[] const, test)
    thrown,   \* TRUE when it left by an exception
    steps,    \* number of operations performed (on a container: of
              \* elements made for it)
    made,     \* the factory call that made the slice, and its range
    mask_n,   \* local n of make_bitmask while its loop is taken step by step
    pair,     \* two assignments to two slices of one vector: the vector
              \* before them, the two, and the order they were made in
    rq,       \* a RingQueue<T>: data_, head_, tail_, count_, cap_mask_
    golden,   \* the std::deque<T> driven next to rq (test.cc)
    fault,    \* "none", or what a write past the end of rq.data_ led to
    il,       \* an IndexList<T>: nodes_, free_list_, head_, tail_, size_
    golden_list  \* the std::list<T> driven next to il (test.cc)

vars == <<N, data, lo, W, op, args, pre, ret, bit, thrown, steps,
          made, mask_n, pair, rq, golden, fault, il, golden_list>>

\* The variables of the containers, and those of the bit vector.
containerVars == <<rq, golden, fault, il, golden_list>>
bitsVars == <<N, data, lo, W, ret, bit, made, mask_n, pair>>

(***************************************************************************)
(* Bounds of the model.                                                    *)
(***************************************************************************)
MaxSteps == 2     \* operations in a run

\* Input values of width K: no bit, the lowest, the highest, bit 63 (the
\* last of the first word), and the complements of those.
Patterns(K) ==
    LET sparse == {{}, {0}, {K - 1}, {63} \cap (0 .. K - 1)}
    IN  sparse \cup {(0 .. K - 1) \ S : S \in sparse}

\* Values of width K assigned to a slice or to the vector: the lowest bit,
\* the highest bit (at or above 64 when K > 64), and all bits.
Sources(K) == {{0}, {K - 1}, 0 .. K - 1}

\* Widths of the parent vector (test.cc runs 63 .. 255).
ParentWidths == {64, 128, 199}

\* Slices <<lo, W>> of the parent, in range (lo + W <= N): within the first
\* word, across the word boundary, a whole word, more than a word, and the
\* top of the vector.
SliceList == {<<0, 41>>, <<40, 41>>, <<0, 64>>, <<40, 65>>, <<150, 49>>}
Slices(Nt) == {s \in SliceList : s[1] + s[2] <= Nt}

\* Indices used into a slice of width Wt.
Indices(Wt) == {0, Wt - 1}

\* Positions the wrapper's single-bit operations are used on.
Positions(Nt) == {0, Nt - 1}

\* Widths of the bitsets assigned to a slice.
SourceWidths == {65, 199}

\* Slices of other vectors assigned to a slice: <<width of the vector, lo, W>>.
OtherSlices == {<<64, 0, 41>>, <<199, 40, 41>>, <<199, 40, 65>>, <<199, 150, 49>>}

\* Pairs of slices <<lo, W>> of one vector with disjoint ranges: adjacent
\* within the first word, adjacent at the word boundary, and apart with
\* one of them across a word boundary.
SlicePairs == {<< <<0, 41>>, <<41, 23>> >>,
               << <<0, 64>>, <<64, 64>> >>,
               << <<40, 65>>, <<150, 49>> >>}
PairsIn(Nt) ==
    {p \in SlicePairs : p[1][1] + p[1][2] <= Nt /\ p[2][1] + p[2][2] <= Nt}

\* Widths a slice is converted to.
TargetWidths == {8, 64, 65, 199}

\* Widths of the bitsets converted from and to by make_bitset.
ConvWidths == {8, 63, 64, 65, 128, 199}

\* Values of width K converted by make_bitset: at most MaxOnes of the marked
\* bits set, and the complements of those.
MaxOnes == 2
ConvMarks == {0, 7, 62, 63, 64, 127, 128, 198}
ConvPatterns(K) ==
    LET sparse == {S \in SUBSET (ConvMarks \cap (0 .. K - 1)) : Cardinality(S) <= MaxOnes}
    IN  sparse \cup {(0 .. K - 1) \ S : S \in sparse}

\* Widths of the vector the factories are called on.
FactoryWidths == {64, 128}

\* Ranges <<HI, LO>> the three factories are called for: within the first
\* word, across the word boundary, more than a word, the top of the vector.
FactoryRanges == {<<40, 0>>, <<63, 23>>, <<104, 40>>, <<127, 79>>}

\* Calls slice_lo<W>(lo), <<W, lo>>, with lo + W > N for a width of
\* FactoryWidths: the slice partly above the vector, and wholly (lo = N).
OutsideLo == {<<41, 40>>, <<41, 64>>, <<65, 100>>, <<41, 128>>}

\* Calls slice_hi<W>(hi), <<W, hi>>, with hi + 1 < W (hi + 1 - W wraps) and
\* with hi >= N for a width of FactoryWidths.
OutsideHi == {<<41, 10>>, <<65, 10>>, <<41, 130>>, <<41, 66>>}

\* Elements made for a container in a run (by the pushes and emplaces that
\* returned).
MaxPushes == 17

\* Arguments of the RingQueue constructor: the default.
InitCaps == {16}

\* Arguments of reserve (test.cc draws them from 1 .. 1024).
ReserveArgs == {1, 33, 128}

\* Elements an IndexList holds at most in a run.
MaxListSize == 3

\* Values of the elements of the list (test.cc draws them from 0 .. 99).
Values == {1, 7}

\* Predicates of remove_if, each the set of the values it holds for: that
\* of test.cc (x % 7 == 0), and one that holds for a single value.
Predicates == {{x \in Values : x % 7 = 0}, {1}}

\* Widths make_bitmask is instantiated with.
MaskWidths == {1, 8, 63, 64, 65, 127, 128, 129, 199}

(***************************************************************************)
(* std::bitset<K> and unsigned long long.                                  *)
(***************************************************************************)
WORD_BITS == 64

Min(a, b) == IF a < b THEN a ELSE b

\* std::bitset<Nt>(unsigned long long v): the low Nt bits of v.
bitset(Nt, v) == v \cap (0 .. Nt - 1)

\* A size_t is kept as its value read as a signed 64-bit integer: s < 0
\* stands for 2^64 + s, the result of a subtraction that wrapped.  Sums and
\* differences are then the ones of the code modulo 2^64, and as a shift
\* count a negative s is at least the width, which leaves no bit.

\* std::bitset<Nt>::operator<<
shl(b, s, Nt) == IF s < 0 THEN {} ELSE {i + s : i \in b} \cap (0 .. Nt - 1)

\* std::bitset<Nt>::operator>>
shr(b, s) == IF s < 0 THEN {} ELSE {i - s : i \in {j \in b : j >= s}}

\* std::bitset<Nt>::operator~
not(b, Nt) == (0 .. Nt - 1) \ b

\* std::bitset<Nt>::to_ullong throws std::overflow_error when the value does
\* not fit an unsigned long long.
to_ullong_overflows(b) == \E i \in b : i >= WORD_BITS

\* v - 1 on uint64_t.
uint64_dec(v) ==
    IF v = {} THEN 0 .. WORD_BITS - 1
    ELSE LET m == CHOOSE x \in v : \A y \in v : x <= y
         IN  (v \ {m}) \cup (0 .. m - 1)

(***************************************************************************)
(* make_bitmask<N>(w)                                                      *)
(***************************************************************************)
MaskShiftFull(n, w) == n

\* std::min(n, w - n)
MaskShift(n, w) == Min(n, w - n)

RECURSIVE MaskLoop(_, _, _, _)
MaskLoop(mask, n, w, Nt) ==
    IF n < w
    THEN MaskLoop(mask \cup shl(mask, MaskShift(n, w), Nt), 2 * n, w, Nt)
    ELSE mask

make_bitmask(Nt, w) ==
    IF w < 64
    THEN bitset(Nt, uint64_dec({w}))
    ELSE MaskLoop(bitset(Nt, 0 .. WORD_BITS - 1), 64, w, Nt)

\* mask = (mask << shift): the old mask is not kept
MaskStepAssign(mask, n, w, Nt) == shl(mask, MaskShift(n, w), Nt)

\* One iteration of the loop on the mask: mask |= (mask << shift)
MaskStep(mask, n, w, Nt) == mask \cup shl(mask, MaskShift(n, w), Nt)

\* n += 64
MaskAdvanceByWord(n) == n + WORD_BITS

\* One iteration of the loop on n: n <<= 1 (n < w <= N here, far below the
\* width of std::size_t)
MaskAdvance(n) == 2 * n

(***************************************************************************)
(* make_bitset<N>(unsigned long long) and make_bitset<N, M>(bitset<M>).    *)
(* A conversion returns [thrown, val]: thrown when to_ullong threw.        *)
(***************************************************************************)
Returned(v) == [thrown |-> FALSE, val |-> v]
Threw == [thrown |-> TRUE, val |-> {}]

make_bitset_ull(Nt, src) == Returned(bitset(Nt, src))

RECURSIVE ChunkLoop(_, _, _, _, _)
ChunkLoop(dst, w, words_to_copy, src, Nt) ==
    IF w < words_to_copy
    THEN LET shifted == shr(src, w * WORD_BITS)
         IN  IF to_ullong_overflows(shifted)
             THEN Threw
             ELSE ChunkLoop(dst \cup shl(bitset(Nt, shifted), w * WORD_BITS, Nt),
                            w + 1, words_to_copy, src, Nt)
    ELSE Returned(dst)

\* The chunk loop taken for equal widths too.
make_bitset_no_identity(Nt, Mt, src) ==
    IF Mt <= 64
    THEN IF to_ullong_overflows(src) THEN Threw ELSE Returned(bitset(Nt, src))
    ELSE LET SRC_WORDS == (Mt + WORD_BITS - 1) \div WORD_BITS
             DST_WORDS == (Nt + WORD_BITS - 1) \div WORD_BITS
         IN  ChunkLoop({}, 0, Min(SRC_WORDS, DST_WORDS), src, Nt)

make_bitset(Nt, Mt, src) ==
    IF Mt = Nt THEN Returned(src)
    ELSE IF Mt <= 64
         THEN IF to_ullong_overflows(src) THEN Threw ELSE Returned(bitset(Nt, src))
    ELSE LET SRC_WORDS == (Mt + WORD_BITS - 1) \div WORD_BITS
             DST_WORDS == (Nt + WORD_BITS - 1) \div WORD_BITS
         IN  ChunkLoop({}, 0, Min(SRC_WORDS, DST_WORDS), src, Nt)

(***************************************************************************)
(* BitSlice<N, W>: a reference to the parent's data, and lo.               *)
(***************************************************************************)
BitSlice_index_no_lo(d, l, idx) == idx \in d

\* bool operator[](size_t idx) const
BitSlice_index(d, l, idx) == (l + idx) \in d

BitSlice_set_no_lo(d, l, idx, value) == IF value THEN d \cup {idx} ELSE d \ {idx}

\* void set(size_t idx, bool value), and operator[](idx) = value
BitSlice_set(d, l, idx, value) == IF value THEN d \cup {l + idx} ELSE d \ {l + idx}

\* operator[](idx).flip()
BitSlice_flip(d, l, idx) == IF (l + idx) \in d THEN d \ {l + idx} ELSE d \cup {l + idx}

\* explicit operator std::bitset<M>() const, and operator std::bitset<W>()
\* const, which is the one chosen when M = W.
BitSlice_to_bitset(Mt, Nt, Wt, d, l) ==
    IF Mt = Wt
    THEN make_bitset(Wt, Nt, shr(d, l))
    ELSE LET result == make_bitset(Mt, Nt, shr(d, l))
         IN  IF result.thrown THEN Threw
             ELSE Returned(result.val \cap make_bitmask(Mt, Wt))

\* make_bitset<N, M, W>(const BitSlice<M, W>&)
make_bitset_slice(Nt, Mt, Wt, d, l) == BitSlice_to_bitset(Nt, Mt, Wt, d, l)

\* make_bitmask<N>(W), not shifted to lo
SliceMaskAtZero(Nt, Wt, l) == make_bitmask(Nt, Wt)

\* make_bitmask<N>(W) << lo
SliceMask(Nt, Wt, l) == shl(make_bitmask(Nt, Wt), l, Nt)

MergeUnmasked(d, mask, rhs_bits, Nt) == (d \cap not(mask, Nt)) \cup rhs_bits

\* (data & ~mask) | (rhs_bits & mask)
Merge(d, mask, rhs_bits, Nt) == (d \cap not(mask, Nt)) \cup (rhs_bits \cap mask)

\* BitSlice& operator=(const OtherT& rhs), rhs already through
\* make_bitset<N>: [thrown, data].
BitSlice_assign(Nt, Wt, d, l, rhs) ==
    IF rhs.thrown
    THEN [thrown |-> TRUE, data |-> d]
    ELSE [thrown |-> FALSE,
          data |-> Merge(d, SliceMask(Nt, Wt, l), shl(rhs.val, l, Nt), Nt)]

\* The destination cleared first, the source slice read afterwards.
BitSlice_assign_clear_first(Nt, Wt, d, l, srcW, srcLo) ==
    LET cleared == d \cap not(SliceMask(Nt, Wt, l), Nt)
    IN  BitSlice_assign(Nt, Wt, cleared, l,
                        make_bitset_slice(Nt, Nt, srcW, cleared, srcLo))

\* operator= with rhs a slice BitSlice<N, srcW> of the same data.
BitSlice_assign_self(Nt, Wt, d, l, srcW, srcLo) ==
    BitSlice_assign(Nt, Wt, d, l, make_bitset_slice(Nt, Nt, srcW, d, srcLo))

(***************************************************************************)
(* bits<N>: the wrapper's single-bit operations and assignment.            *)
(***************************************************************************)
\* bits& set(size_type pos, bool val = true)
bits_set(d, pos, val) == IF val THEN d \cup {pos} ELSE d \ {pos}

\* bits& reset(size_type pos)
bits_reset(d, pos) == d \ {pos}

\* bits& flip(size_type pos)
bits_flip(d, pos) == IF pos \in d THEN d \ {pos} ELSE d \cup {pos}

\* bool test(size_type pos) const
bits_test(d, pos) == pos \in d

\* The slice factories return BitSlice<N, W>(data, lo): [lo, W].
\* auto slice<HI, LO>()
bits_slice(HI, LO) == [lo |-> LO, W |-> HI - LO + 1]

\* auto slice_lo<W>(size_t lo)
bits_slice_lo(Wt, l) == [lo |-> l, W |-> Wt]

bits_slice_hi_below(Wt, hi) == [lo |-> hi - Wt, W |-> Wt]

\* auto slice_hi<W>(size_t hi): hi + 1 - W on size_t
bits_slice_hi(Wt, hi) == [lo |-> hi + 1 - Wt, W |-> Wt]

(***************************************************************************)
(* RingQueue<T>.  The queue is the record of its members: data_ the        *)
(* std::vector<T> (slot i of the code is data_[i + 1] here), head_, tail_, *)
(* count_, cap_mask_.  A slot holds the element constructed in it, T() as  *)
(* the vector made it, or a destroyed object.  The size_t cap_mask_ is     *)
(* kept as its signed reading: -1 is 0 - 1 wrapped, all bits set.          *)
(***************************************************************************)
\* T(): what std::vector<T>(n) fills its slots with.
DefaultT == 0

\* A slot after ~T().
Destroyed == -1

Max(a, b) == IF a < b THEN b ELSE a

\* x & m, for m = 2^k - 1 or m all ones.
band(x, m) == IF m < 0 THEN x ELSE x % (m + 1)

\* std::size_t(1) << k
RECURSIVE shl1(_)
shl1(k) == IF k = 0 THEN 1 ELSE 2 * shl1(k - 1)

\* __builtin_clzll(m), m # 0
RECURSIVE clzll(_)
clzll(m) == IF m = 0 THEN WORD_BITS ELSE clzll(m \div 2) - 1

\* __builtin_clzll(0) is undefined: the count a build may yield.  64 is the
\* count of lzcnt and of clz on ARM, the others what bsr leaves behind.
ClzOfZero == {64, 63, 59}

\* static bool is_power_of_two(n): n > 0 && (n & (n - 1)) == 0
RECURSIVE is_power_of_two(_)
is_power_of_two(n) ==
    n > 0 /\ (n = 1 \/ (n % 2 = 0 /\ is_power_of_two(n \div 2)))

\* static size_t next_power_of_two(n), the values it may return.
next_power_of_two(n) ==
    IF n = 0 THEN {1}
    ELSE IF n - 1 = 0 THEN {shl1(WORD_BITS - c) : c \in ClzOfZero}
    ELSE {shl1(WORD_BITS - clzll(n - 1))}

\* std::vector<T>(n)
vector(n) == [i \in 1 .. n |-> DefaultT]

\* explicit RingQueue(init_cap), data_ of cap = reserve_power_of_two(init_cap)
RingQueue(cap) ==
    [data_ |-> vector(cap), head_ |-> 0, tail_ |-> 0, count_ |-> 0,
     cap_mask_ |-> cap - 1]

capacity(q) == Len(q.data_)
size(q) == q.count_
empty(q) == size(q) = 0
full(q) == size(q) = capacity(q)

\* T& front(): data_[head_]
front(q) == q.data_[q.head_ + 1]

\* T& back(): data_[(tail_ - 1) & cap_mask_]
back(q) == q.data_[band(q.tail_ - 1, q.cap_mask_) + 1]

\* (head_ + i) & cap_mask_
src_index(q, i) == band(q.head_ + i, q.cap_mask_)

\* void grow_to(new_cap): [thrown, q].  at < 0: no constructor throws, the
\* elements move to new_data in logical order.  at >= 0: the construction
\* of element at in new_data throws; the elements before it have been
\* constructed there and destroyed in data_, and new_data is dropped.
grow_to(q, new_cap, at) ==
    IF at >= 0
    THEN [thrown |-> TRUE,
          q |-> [q EXCEPT !.data_ =
                    [j \in 1 .. Len(q.data_) |->
                        IF \E i \in 0 .. at - 1 : src_index(q, i) = j - 1
                        THEN Destroyed ELSE q.data_[j]]]]
    ELSE [thrown |-> FALSE,
          q |-> [data_ |-> [j \in 1 .. new_cap |->
                              IF j <= q.count_
                              THEN q.data_[src_index(q, j - 1) + 1]
                              ELSE DefaultT],
                 head_ |-> 0, tail_ |-> q.count_, count_ |-> q.count_,
                 cap_mask_ |-> new_cap - 1]]

\* void grow()
grow(q, at) == grow_to(q, IF capacity(q) # 0 THEN capacity(q) * 2 ELSE 1, at)

\* void ensure_capacity()
ensure_capacity(q, at) ==
    IF full(q) THEN grow(q, at) ELSE [thrown |-> FALSE, q |-> q]

\* void advance_head()
advance_head(q) ==
    [q EXCEPT !.head_ = band(q.head_ + 1, q.cap_mask_), !.count_ = @ - 1]

\* void advance_tail()
advance_tail(q) ==
    [q EXCEPT !.tail_ = band(q.tail_ + 1, q.cap_mask_), !.count_ = @ + 1]

\* void push(U&& val): [thrown, q].  at as in grow_to; throws: the
\* constructor of the new element throws.  For tail_ inside data_.
push(q, x, at, throws) ==
    LET e == ensure_capacity(q, at)
    IN  IF e.thrown THEN e
        ELSE IF throws THEN [thrown |-> TRUE, q |-> e.q]
        ELSE [thrown |-> FALSE,
              q |-> advance_tail([e.q EXCEPT !.data_[e.q.tail_ + 1] = x])]

\* T& emplace(Args&&...): the steps of push.
emplace(q, x, at, throws) == push(q, x, at, throws)

\* void pop()
pop(q) == advance_head([q EXCEPT !.data_[q.head_ + 1] = Destroyed])

\* void reserve(n), next_power_of_two(n) having returned c
reserve(q, n, c) == IF n > capacity(q) THEN grow_to(q, c, -1).q ELSE q

\* capacity() > 16, std::size_t(16) of shrink_to_fit
SHRINK_FLOOR == 16

\* void reset_indices()
reset_indices(q) ==
    [q EXCEPT !.head_ = 0, !.tail_ = 0, !.count_ = 0,
              !.cap_mask_ = Len(q.data_) - 1]

\* void shrink_to_fit(), next_power_of_two(count_) having returned c
shrink_to_fit(q, c) ==
    IF q.count_ = 0
    THEN reset_indices([q EXCEPT !.data_ = <<>>])
    ELSE IF q.count_ < capacity(q) \div 4 /\ capacity(q) > SHRINK_FLOOR
         THEN grow_to(q, Max(c, SHRINK_FLOOR), -1).q
         ELSE q

(***************************************************************************)
(* IndexList<T>.  The list is the record of its members: nodes_ the        *)
(* std::vector<Node> (node idx of the code is nodes_[idx + 1] here),       *)
(* free_list_, head_, tail_, size_.                                        *)
(***************************************************************************)
\* static_cast<index_type>(-1), in the signed reading of size_t
npos == -1

\* std::nullopt, as next_index returns it
nullopt == -2

\* Node(T v, index_type p, index_type n)
Node(v, p, n) == [value |-> v, prev |-> p, next |-> n]

\* explicit IndexList(capacity)
IndexList ==
    [nodes_ |-> <<>>, free_list_ |-> <<>>, head_ |-> npos, tail_ |-> npos,
     size_ |-> 0]

\* index_type alloc_node(v, prev, next): [idx, l]
alloc_node(l, v, p, n) ==
    IF l.free_list_ # <<>>
    THEN LET idx == l.free_list_[Len(l.free_list_)]
         IN  [idx |-> idx,
              l |-> [l EXCEPT !.free_list_ = SubSeq(@, 1, Len(@) - 1),
                              !.nodes_[idx + 1] = Node(v, p, n)]]
    ELSE [idx |-> Len(l.nodes_),
          l |-> [l EXCEPT !.nodes_ = Append(@, Node(v, p, n))]]

\* void free_node(idx)
free_node(l, idx) == [l EXCEPT !.free_list_ = Append(@, idx)]

link_prev_only(l, p, n) ==
    IF n # npos THEN [l EXCEPT !.nodes_[n + 1].prev = p] ELSE l

\* void link(prev, next)
link(l, p, n) ==
    LET a == IF p # npos THEN [l EXCEPT !.nodes_[p + 1].next = n] ELSE l
    IN  IF n # npos THEN [a EXCEPT !.nodes_[n + 1].prev = p] ELSE a

list_empty(l) == l.size_ = 0
list_size(l) == l.size_

\* void push_back(T v)
push_back(l, v) ==
    LET a == alloc_node(l, v, l.tail_, npos)
        b == IF list_empty(a.l)
             THEN [a.l EXCEPT !.head_ = a.idx, !.tail_ = a.idx]
             ELSE [link(a.l, a.l.tail_, a.idx) EXCEPT !.tail_ = a.idx]
    IN  [b EXCEPT !.size_ = @ + 1]

\* void push_front(T v)
push_front(l, v) ==
    LET a == alloc_node(l, v, npos, l.head_)
        b == IF list_empty(a.l)
             THEN [a.l EXCEPT !.head_ = a.idx, !.tail_ = a.idx]
             ELSE [link(a.l, a.idx, a.l.head_) EXCEPT !.head_ = a.idx]
    IN  [b EXCEPT !.size_ = @ + 1]

\* T& emplace_back(Args&&...): T(args) made, then the steps of push_back
emplace_back(l, v) ==
    LET a == alloc_node(l, v, l.tail_, npos)
        b == IF list_empty(a.l)
             THEN [a.l EXCEPT !.head_ = a.idx, !.tail_ = a.idx]
             ELSE [link(a.l, a.l.tail_, a.idx) EXCEPT !.tail_ = a.idx]
    IN  [b EXCEPT !.size_ = @ + 1]

\* T& emplace_front(Args&&...): T(args) made, then the steps of push_front
emplace_front(l, v) ==
    LET a == alloc_node(l, v, npos, l.head_)
        b == IF list_empty(a.l)
             THEN [a.l EXCEPT !.head_ = a.idx, !.tail_ = a.idx]
             ELSE [link(a.l, a.idx, a.l.head_) EXCEPT !.head_ = a.idx]
    IN  [b EXCEPT !.size_ = @ + 1]

\* void pop_back()
pop_back(l) ==
    LET old == l.tail_
        a == [l EXCEPT !.tail_ = l.nodes_[old + 1].prev]
        b == IF a.tail_ # npos
             THEN [a EXCEPT !.nodes_[a.tail_ + 1].next = npos]
             ELSE [a EXCEPT !.head_ = npos]
    IN  [free_node(b, old) EXCEPT !.size_ = @ - 1]

\* pop_front with the prev of the new head left as it was
pop_front_keep_prev(l) ==
    LET old == l.head_
        a == [l EXCEPT !.head_ = l.nodes_[old + 1].next]
        b == IF a.head_ # npos THEN a ELSE [a EXCEPT !.tail_ = npos]
    IN  [free_node(b, old) EXCEPT !.size_ = @ - 1]

\* void pop_front()
pop_front(l) ==
    LET old == l.head_
        a == [l EXCEPT !.head_ = l.nodes_[old + 1].next]
        b == IF a.head_ # npos
             THEN [a EXCEPT !.nodes_[a.head_ + 1].prev = npos]
             ELSE [a EXCEPT !.tail_ = npos]
    IN  [free_node(b, old) EXCEPT !.size_ = @ - 1]

\* T& front(): nodes_[head_].value
list_front(l) == l.nodes_[l.head_ + 1].value

\* T& back(): nodes_[tail_].value
list_back(l) == l.nodes_[l.tail_ + 1].value

\* erase with tail_ left as it was
erase_keep_tail(l, idx) ==
    LET a == link(l, l.nodes_[idx + 1].prev, l.nodes_[idx + 1].next)
        b == IF a.head_ = idx THEN [a EXCEPT !.head_ = a.nodes_[idx + 1].next] ELSE a
    IN  [free_node(b, idx) EXCEPT !.size_ = @ - 1]

\* void erase(idx); node is a reference, read after link has written
erase(l, idx) ==
    LET a == link(l, l.nodes_[idx + 1].prev, l.nodes_[idx + 1].next)
        b == IF a.head_ = idx THEN [a EXCEPT !.head_ = a.nodes_[idx + 1].next] ELSE a
        c == IF b.tail_ = idx THEN [b EXCEPT !.tail_ = b.nodes_[idx + 1].prev] ELSE b
    IN  [free_node(c, idx) EXCEPT !.size_ = @ - 1]

\* The loop of remove_if going on, after an erase, from the node behind the
\* next one.
RECURSIVE RemoveLoopSkip(_, _, _)
RemoveLoopSkip(l, curr, P) ==
    IF curr # npos
    THEN LET next == l.nodes_[curr + 1].next
         IN  IF l.nodes_[curr + 1].value \in P
             THEN RemoveLoopSkip(erase(l, curr),
                                 IF next # npos THEN l.nodes_[next + 1].next ELSE npos, P)
             ELSE RemoveLoopSkip(l, next, P)
    ELSE l

\* The loop of remove_if from curr on, P the values pred holds for.
RECURSIVE RemoveLoop(_, _, _)
RemoveLoop(l, curr, P) ==
    IF curr # npos
    THEN LET next == l.nodes_[curr + 1].next
         IN  RemoveLoop(IF l.nodes_[curr + 1].value \in P THEN erase(l, curr) ELSE l,
                        next, P)
    ELSE l

\* remove_if with the loop that skips
remove_if_skip(l, P) == RemoveLoopSkip(l, l.head_, P)

\* void remove_if(pred)
remove_if(l, P) == RemoveLoop(l, l.head_, P)

\* The nodes whose value pred is called on by the loop of remove_if from
\* curr on, in the order of the calls; at most fuel calls.
RECURSIVE PredCalls(_, _, _, _)
PredCalls(l, curr, P, fuel) ==
    IF curr # npos /\ fuel > 0
    THEN LET next == l.nodes_[curr + 1].next
         IN  <<curr>> \o PredCalls(IF l.nodes_[curr + 1].value \in P
                                   THEN erase(l, curr) ELSE l,
                                   next, P, fuel - 1)
    ELSE <<>>

\* index_type front_index()
front_index(l) == l.head_

\* index_type back_index()
back_index(l) == l.tail_

\* The indices of the nodes met following next from idx, at most fuel of
\* them.
RECURSIVE IndicesFrom(_, _, _)
IndicesFrom(l, idx, fuel) ==
    IF idx = npos \/ fuel = 0 THEN <<>>
    ELSE <<idx>> \o IndicesFrom(l, l.nodes_[idx + 1].next, fuel - 1)

\* The indices of the live nodes, front to back.
LiveIndices(l) == IndicesFrom(l, l.head_, Len(l.nodes_) + 1)

\* std::optional<index_type> next_index(idx); idx >= nodes_.size() is
\* unsigned, so it holds for npos
next_index(l, idx) ==
    IF idx = npos \/ idx < 0 \/ idx >= Len(l.nodes_) THEN nullopt
    ELSE LET n == l.nodes_[idx + 1].next
         IN  IF n = npos THEN nullopt ELSE n

\* T& operator[](idx)
list_at(l, idx) == l.nodes_[idx + 1].value

(***************************************************************************)
(* The state machine: a vector bits<N>, one slice BitSlice<N, W> bound to  *)
(* it for the whole run, and the operations on both.  A slice holds a      *)
(* reference to data and lo, nothing else, so it has no state of its own   *)
(* beside lo.                                                              *)
(***************************************************************************)
NoArgs == [pos |-> 0, idx |-> 0, val |-> FALSE, M |-> 0, w |-> 0, src |-> {},
           srcN |-> 0, srcLo |-> 0, srcW |-> 0, n |-> 0, x |-> 0, at |-> -1]

\* No slice made by a factory call of the run.
NoSlice == [by |-> "none", HI |-> 0, LO |-> 0]

\* No pair of assignments set up.
NoPair == <<>>

\* No container constructed.
NoContainers ==
    /\ rq = <<>> /\ golden = <<>> /\ fault = "none"
    /\ il = <<>> /\ golden_list = <<>>

\* No bit vector constructed.
NoBits ==
    /\ N = 0 /\ data = {} /\ lo = 0 /\ W = 0 /\ made = NoSlice
    /\ mask_n = 0 /\ pair = NoPair
    /\ ret = {} /\ bit = FALSE

\* bits<N> bv(golden); bv.slice_lo<W>(lo)
Init ==
    /\ N \in ParentWidths
    /\ data \in Patterns(N)
    /\ \E s \in Slices(N) : lo = s[1] /\ W = s[2]
    /\ op = "init" /\ args = NoArgs /\ pre = data
    /\ ret = {} /\ bit = FALSE /\ thrown = FALSE /\ steps = 0
    /\ made = NoSlice /\ mask_n = 0 /\ pair = NoPair /\ NoContainers

\* An operation that writes the vector: d is data after it, t whether it threw.
Write(name, a, d, t) ==
    /\ steps < MaxSteps
    /\ steps' = steps + 1
    /\ op' = name /\ args' = a /\ pre' = data
    /\ data' = d /\ thrown' = t
    /\ UNCHANGED <<N, lo, W, ret, bit, made, mask_n, pair, containerVars>>

\* An operation that only reads it: r is the bitset returned, b the bool.
Read(name, a, r, b, t) ==
    /\ steps < MaxSteps
    /\ steps' = steps + 1
    /\ op' = name /\ args' = a /\ pre' = data
    /\ ret' = r /\ bit' = b /\ thrown' = t
    /\ UNCHANGED <<N, data, lo, W, made, mask_n, pair, containerVars>>

WrapSet ==
    \E pos \in Positions(N), val \in BOOLEAN :
        Write("bits_set", [NoArgs EXCEPT !.pos = pos, !.val = val],
              bits_set(data, pos, val), FALSE)

WrapReset ==
    \E pos \in Positions(N) :
        Write("bits_reset", [NoArgs EXCEPT !.pos = pos], bits_reset(data, pos), FALSE)

WrapFlip ==
    \E pos \in Positions(N) :
        Write("bits_flip", [NoArgs EXCEPT !.pos = pos], bits_flip(data, pos), FALSE)

\* bits& operator=(const std::bitset<N>& bs)
WrapAssign ==
    \E bs \in Sources(N) :
        Write("bits_assign", [NoArgs EXCEPT !.src = bs], bs, FALSE)

WrapTest ==
    \E pos \in Positions(N) :
        Read("bits_test", [NoArgs EXCEPT !.pos = pos], {}, bits_test(data, pos), FALSE)

\* slice[idx] read through the const operator[]
SliceIndex ==
    \E idx \in Indices(W) :
        Read("slice_index", [NoArgs EXCEPT !.idx = idx], {},
             BitSlice_index(data, lo, idx), FALSE)

\* slice[idx] = val
SliceIndexAssign ==
    \E idx \in Indices(W), val \in BOOLEAN :
        Write("slice_index_assign", [NoArgs EXCEPT !.idx = idx, !.val = val],
              BitSlice_set(data, lo, idx, val), FALSE)

\* slice.set(idx, val)
SliceSet ==
    \E idx \in Indices(W), val \in BOOLEAN :
        Write("slice_set", [NoArgs EXCEPT !.idx = idx, !.val = val],
              BitSlice_set(data, lo, idx, val), FALSE)

\* slice[idx].flip()
SliceIndexFlip ==
    \E idx \in Indices(W) :
        Write("slice_index_flip", [NoArgs EXCEPT !.idx = idx],
              BitSlice_flip(data, lo, idx), FALSE)

\* slice = src, src an unsigned long long
SliceAssignScalar ==
    \E src \in Sources(WORD_BITS) :
        LET r == BitSlice_assign(N, W, data, lo, make_bitset_ull(N, src))
        IN  Write("slice_assign_scalar", [NoArgs EXCEPT !.src = src, !.srcN = WORD_BITS],
                  r.data, r.thrown)

\* slice = src, src a std::bitset<K>
SliceAssignBitset ==
    \E K \in SourceWidths \cup {N} : \E src \in Sources(K) :
        LET r == BitSlice_assign(N, W, data, lo, make_bitset(N, K, src))
        IN  Write("slice_assign_bitset", [NoArgs EXCEPT !.src = src, !.srcN = K],
                  r.data, r.thrown)

\* slice = bv.slice_lo<srcW>(srcLo), a slice of the same vector
SliceAssignSelf ==
    \E s \in Slices(N) :
        LET r == BitSlice_assign_self(N, W, data, lo, s[2], s[1])
        IN  Write("slice_assign_self",
                  [NoArgs EXCEPT !.src = data, !.srcN = N, !.srcLo = s[1], !.srcW = s[2]],
                  r.data, r.thrown)

\* slice = other.slice_lo<srcW>(srcLo), a slice of another vector bits<K>
SliceAssignOther ==
    \E s \in OtherSlices : \E src \in Sources(s[1]) :
        LET r == BitSlice_assign(N, W, data, lo,
                                 make_bitset_slice(N, s[1], s[3], src, s[2]))
        IN  Write("slice_assign_other",
                  [NoArgs EXCEPT !.src = src, !.srcN = s[1], !.srcLo = s[2], !.srcW = s[3]],
                  r.data, r.thrown)

\* (std::bitset<M>)slice
SliceConvert ==
    \E M \in TargetWidths \cup {N, W} :
        LET r == BitSlice_to_bitset(M, N, W, data, lo)
        IN  Read("slice_convert", [NoArgs EXCEPT !.M = M], r.val, FALSE, r.thrown)

Next ==
    \/ WrapSet \/ WrapReset \/ WrapFlip \/ WrapAssign \/ WrapTest
    \/ SliceIndex \/ SliceIndexAssign \/ SliceSet \/ SliceIndexFlip
    \/ SliceAssignScalar \/ SliceAssignBitset \/ SliceAssignSelf \/ SliceAssignOther
    \/ SliceConvert

Spec == Init /\ [][Next]_vars

(***************************************************************************)
(* Two slices of one vector with disjoint ranges, each assigned once from  *)
(* a value that is not a view of that vector, in either order.             *)
(***************************************************************************)
\* The right-hand sides: an unsigned long long, a std::bitset<K>, a slice
\* of another vector bits<K>.
IndependentSources(Nt) ==
    {[kind |-> "scalar", src |-> v, srcN |-> WORD_BITS, srcLo |-> 0, srcW |-> 0] :
        v \in Sources(WORD_BITS)}
    \cup UNION {{[kind |-> "bitset", src |-> v, srcN |-> K, srcLo |-> 0, srcW |-> 0] :
                    v \in Sources(K)} : K \in SourceWidths \cup {Nt}}
    \cup UNION {{[kind |-> "other", src |-> v, srcN |-> s[1], srcLo |-> s[2],
                  srcW |-> s[3]] : v \in Sources(s[1])} : s \in OtherSlices}

\* make_bitset<N>(rhs) of operator= for such a right-hand side
Converted(Nt, r) ==
    CASE r.kind = "scalar" -> make_bitset_ull(Nt, r.src)
      [] r.kind = "bitset" -> make_bitset(Nt, r.srcN, r.src)
      [] r.kind = "other" -> make_bitset_slice(Nt, r.srcN, r.srcW, r.src, r.srcLo)

\* d after the slice t.lo, t.W of it was assigned t.rhs: [thrown, data]
AssignTo(Nt, d, t) == BitSlice_assign(Nt, t.W, d, t.lo, Converted(Nt, t.rhs))

\* bits<N> bv(golden); auto a = bv.slice_lo<Wa>(loa); auto b = bv.slice_lo<Wb>(lob)
InitPair ==
    /\ N \in ParentWidths
    /\ data \in Patterns(N)
    /\ \E p \in PairsIn(N) : \E ra, rb \in IndependentSources(N) :
          pair = [start |-> data,
                  a |-> [lo |-> p[1][1], W |-> p[1][2], rhs |-> ra],
                  b |-> [lo |-> p[2][1], W |-> p[2][2], rhs |-> rb],
                  done |-> <<>>]
    /\ lo = 0 /\ W = 0
    /\ op = "init" /\ args = NoArgs /\ pre = data
    /\ ret = {} /\ bit = FALSE /\ thrown = FALSE /\ steps = 0
    /\ made = NoSlice /\ mask_n = 0 /\ NoContainers

\* The assignment to slice which ("a" or "b") of the pair, not made yet
PairAssign(which) ==
    LET t == pair[which]
        r == AssignTo(N, data, t)
    IN  /\ \A k \in 1 .. Len(pair.done) : pair.done[k] # which
        /\ pair' = [pair EXCEPT !.done = Append(@, which)]
        /\ lo' = t.lo /\ W' = t.W
        /\ op' = "slice_assign_" \o t.rhs.kind
        /\ args' = [NoArgs EXCEPT !.src = t.rhs.src, !.srcN = t.rhs.srcN,
                                  !.srcLo = t.rhs.srcLo, !.srcW = t.rhs.srcW]
        /\ pre' = data /\ data' = r.data /\ thrown' = r.thrown
        /\ steps' = steps + 1
        /\ UNCHANGED <<N, ret, bit, made, mask_n, containerVars>>

PairAssignA == PairAssign("a")
PairAssignB == PairAssign("b")

NextPair == PairAssignA \/ PairAssignB

SpecPair == InitPair /\ [][NextPair]_vars

(***************************************************************************)
(* The slice made by one of the three factories of bits<N>, then used.     *)
(* slice<HI, LO>() compiles for HI < N, LO < N, HI >= LO only; slice_lo    *)
(* and slice_hi take their position at run time and pass it on, as the     *)
(* constructor of BitSlice does, with no check in any build.               *)
(***************************************************************************)
InitFactory ==
    /\ N \in FactoryWidths
    /\ data \in Patterns(N)
    /\ lo = 0 /\ W = 0
    /\ op = "init" /\ args = NoArgs /\ pre = data
    /\ ret = {} /\ bit = FALSE /\ thrown = FALSE /\ steps = 0
    /\ made = NoSlice /\ mask_n = 0 /\ pair = NoPair /\ NoContainers

\* The factory call by, naming the range [LO, HI], returned the slice s.
MakeSlice(by, HI, LO, s) ==
    /\ made.by = "none"
    /\ made' = [by |-> by, HI |-> HI, LO |-> LO]
    /\ lo' = s.lo /\ W' = s.W
    /\ op' = by /\ args' = NoArgs /\ pre' = data /\ thrown' = FALSE
    /\ UNCHANGED <<N, data, ret, bit, steps, mask_n, pair, containerVars>>

\* bv.slice<HI, LO>()
FactorySlice ==
    \E r \in FactoryRanges :
        /\ r[1] < N /\ r[2] < N /\ r[1] >= r[2]
        /\ MakeSlice("slice", r[1], r[2], bits_slice(r[1], r[2]))

\* bv.slice_lo<W>(lo): W <= N by static_assert, lo any size_t
FactorySliceLo ==
    \E c \in {<<r[1] - r[2] + 1, r[2]>> : r \in FactoryRanges} \cup OutsideLo :
        /\ c[1] <= N
        /\ MakeSlice("slice_lo", c[2] + c[1] - 1, c[2], bits_slice_lo(c[1], c[2]))

\* bv.slice_hi<W>(hi): W <= N by static_assert, hi any size_t
FactorySliceHi ==
    \E c \in {<<r[1] - r[2] + 1, r[1]>> : r \in FactoryRanges} \cup OutsideHi :
        /\ c[1] <= N
        /\ MakeSlice("slice_hi", c[2], c[2] + 1 - c[1], bits_slice_hi(c[1], c[2]))

\* The slice lies in the vector: 0 <= lo and lo + W <= N.
SliceInRange == 0 <= lo /\ lo + W <= N

\* slice[idx] read through a slice that is not in the vector: where
\* lo + idx is a position of the vector the bit is read; elsewhere
\* std::bitset::operator[] is undefined, and the read yields either value.
SliceIndexOutside ==
    \E idx \in Indices(W), b \in BOOLEAN :
        /\ (0 <= lo + idx /\ lo + idx < N) => b = BitSlice_index(data, lo, idx)
        /\ Read("slice_index", [NoArgs EXCEPT !.idx = idx], {}, b, FALSE)

NextFactory ==
    \/ FactorySlice \/ FactorySliceLo \/ FactorySliceHi
    \/ /\ made.by # "none" /\ SliceInRange
       /\ \/ SliceIndex \/ SliceSet \/ SliceIndexFlip
          \/ SliceAssignScalar \/ SliceAssignBitset \/ SliceConvert
    \/ /\ made.by # "none" /\ ~SliceInRange
       /\ \/ SliceIndexOutside
          \/ SliceAssignScalar \/ SliceAssignBitset \/ SliceConvert

SpecFactory == InitFactory /\ [][NextFactory]_vars

(***************************************************************************)
(* make_bitmask<N>(w) called on its own, for every w in 0 .. N.            *)
(***************************************************************************)
InitPure(widths) ==
    /\ N \in widths
    /\ data = {} /\ lo = 0 /\ W = 0
    /\ op = "init" /\ args = NoArgs /\ pre = {}
    /\ ret = {} /\ bit = FALSE /\ thrown = FALSE /\ steps = 0
    /\ made = NoSlice /\ mask_n = 0 /\ pair = NoPair /\ NoContainers

Call(name, a, r) ==
    /\ op' = name /\ args' = a
    /\ ret' = r.val /\ thrown' = r.thrown
    /\ UNCHANGED <<N, data, lo, W, pre, bit, steps, made, mask_n, pair, containerVars>>

InitMask == InitPure(MaskWidths)

MakeBitmask ==
    \E w \in 0 .. N :
        Call("make_bitmask", [NoArgs EXCEPT !.w = w], Returned(make_bitmask(N, w)))

NextMask == MakeBitmask

SpecMask == InitMask /\ [][NextMask]_vars

(***************************************************************************)
(* make_bitmask<N>(w) called with w above N: every w up to a word beyond   *)
(* twice the width.  The function has no check of w, in any build: the     *)
(* fast path truncates (1 << w) - 1 to N bits, the doubling loop shifts    *)
(* bits out of the top, and both return.                                   *)
(***************************************************************************)
MakeBitmaskOver ==
    \E w \in N + 1 .. 2 * N + WORD_BITS :
        Call("make_bitmask_over", [NoArgs EXCEPT !.w = w],
             Returned(make_bitmask(N, w)))

NextMaskOver == MakeBitmaskOver

SpecMaskOver == InitMask /\ [][NextMaskOver]_vars

(***************************************************************************)
(* The cold path of make_bitmask<N>(w), 64 <= w <= N, taken one iteration  *)
(* of its while loop at a time: data is the local mask, mask_n the local   *)
(* n, steps the number of iterations done, pre the mask before the last    *)
(* iteration.                                                              *)
(***************************************************************************)
InitMaskLoop ==
    /\ N \in {Nt \in MaskWidths : Nt >= WORD_BITS}
    /\ \E w \in WORD_BITS .. N : args = [NoArgs EXCEPT !.w = w]
    /\ data = bitset(N, 0 .. WORD_BITS - 1)
    /\ mask_n = WORD_BITS
    /\ pre = data /\ ret = {} /\ op = "init"
    /\ lo = 0 /\ W = 0 /\ bit = FALSE /\ thrown = FALSE /\ steps = 0
    /\ made = NoSlice /\ pair = NoPair /\ NoContainers

MaskIter ==
    /\ op \in {"init", "iter"}
    /\ mask_n < args.w
    /\ pre' = data
    /\ data' = MaskStep(data, mask_n, args.w, N)
    /\ mask_n' = MaskAdvance(mask_n)
    /\ steps' = steps + 1
    /\ op' = "iter"
    /\ UNCHANGED <<N, lo, W, args, ret, bit, thrown, made, pair, containerVars>>

MaskReturn ==
    /\ op \in {"init", "iter"}
    /\ ~(mask_n < args.w)
    /\ ret' = data
    /\ op' = "return"
    /\ UNCHANGED <<N, data, lo, W, args, pre, bit, thrown, steps, made,
                   mask_n, pair, containerVars>>

NextMaskLoop == MaskIter \/ MaskReturn

SpecMaskLoop == InitMaskLoop /\ [][NextMaskLoop]_vars

\* The loop is straight-line code of one call: an iteration that can be
\* taken is taken.
SpecMaskLoopFair == SpecMaskLoop /\ WF_vars(NextMaskLoop)

(***************************************************************************)
(* make_bitset<N>(src) called on its own.                                  *)
(***************************************************************************)
InitConv == InitPure(ConvWidths)

\* make_bitset<N, M>(const std::bitset<M>& src)
MakeBitset ==
    \E M \in ConvWidths : \E src \in ConvPatterns(M) :
        Call("make_bitset", [NoArgs EXCEPT !.src = src, !.srcN = M],
             make_bitset(N, M, src))

\* make_bitset<N>(unsigned long long src)
MakeBitsetUll ==
    \E src \in ConvPatterns(WORD_BITS) :
        Call("make_bitset_ull", [NoArgs EXCEPT !.src = src, !.srcN = WORD_BITS],
             make_bitset_ull(N, src))

NextConv == MakeBitset \/ MakeBitsetUll

SpecConv == InitConv /\ [][NextConv]_vars

(***************************************************************************)
(* The chunk loop of make_bitset<N, M>, M > 64 and M # N, one iteration a  *)
(* step.  data is dst, steps is w, args.src and args.srcN are src and M,   *)
(* ret is the chunk of the iteration taken last.                           *)
(***************************************************************************)
\* (M + WORD_BITS - 1) / WORD_BITS
Words(K) == (K + WORD_BITS - 1) \div WORD_BITS

InitChunk ==
    /\ N \in ConvWidths
    /\ \E M \in ConvWidths : \E src \in ConvPatterns(M) :
          /\ M > 64 /\ M # N
          /\ args = [NoArgs EXCEPT !.src = src, !.srcN = M]
    /\ data = {} /\ pre = {} /\ steps = 0
    /\ op = "init" /\ ret = {} /\ thrown = FALSE
    /\ lo = 0 /\ W = 0 /\ bit = FALSE
    /\ made = NoSlice /\ mask_n = 0 /\ pair = NoPair /\ NoContainers

\* One iteration: chunk = (src >> (w * WORD_BITS)).to_ullong(), which
\* throws or yields the value; dst |= std::bitset<N>(chunk) << (w * WORD_BITS).
ChunkIter ==
    LET shifted == shr(args.src, steps * WORD_BITS)
    IN  /\ op \in {"init", "chunk"} /\ ~thrown
        /\ steps < Min(Words(args.srcN), Words(N))
        /\ op' = "chunk" /\ pre' = data
        /\ IF to_ullong_overflows(shifted)
           THEN thrown' = TRUE /\ ret' = {} /\ data' = data /\ steps' = steps
           ELSE /\ thrown' = FALSE /\ ret' = shifted
                /\ data' = data \cup shl(bitset(N, shifted), steps * WORD_BITS, N)
                /\ steps' = steps + 1
        /\ UNCHANGED <<N, lo, W, args, bit, made, mask_n, pair, containerVars>>

\* return dst
ChunkReturn ==
    /\ op \in {"init", "chunk"} /\ ~thrown
    /\ ~(steps < Min(Words(args.srcN), Words(N)))
    /\ op' = "return" /\ ret' = data
    /\ UNCHANGED <<N, data, lo, W, args, pre, bit, thrown, steps, made, mask_n, pair, containerVars>>

NextChunk == ChunkIter \/ ChunkReturn

SpecChunk == InitChunk /\ [][NextChunk]_vars

(***************************************************************************)
(* A RingQueue<T> and the std::deque<T> of test.cc, driven by the same     *)
(* operations.  The k-th element made by a push or emplace of a run is k,  *)
(* so the elements of a queue are distinct.  pop is called on a            *)
(* non-empty queue only (its assert).  The exceptions are those of the     *)
(* constructors of T: of the new element, or of an element copied by       *)
(* grow_to (move_if_noexcept copies a T whose move constructor may throw). *)
(***************************************************************************)
InitRQ ==
    /\ \E n \in InitCaps : \E cap \in next_power_of_two(n) : rq = RingQueue(cap)
    /\ golden = <<>> /\ fault = "none"
    /\ il = <<>> /\ golden_list = <<>>
    /\ NoBits
    /\ op = "init" /\ args = NoArgs /\ pre = rq /\ thrown = FALSE /\ steps = 0

\* An operation on the queue: q the queue after it, g the deque, t whether
\* it threw.
RQStep(name, a, q, g, t) ==
    /\ fault # "aborted"
    /\ op' = name /\ args' = a /\ pre' = rq
    /\ rq' = q /\ golden' = g /\ thrown' = t
    /\ UNCHANGED <<bitsVars, il, golden_list>>

\* push or emplace of a new element, nothing throwing, the new element
\* constructed inside data_.
PushLike(name) ==
    LET x == steps + 1
        r == IF name = "push" THEN push(rq, x, -1, FALSE)
                              ELSE emplace(rq, x, -1, FALSE)
        e == ensure_capacity(rq, -1).q
    IN  /\ steps < MaxPushes
        /\ e.tail_ < capacity(e)
        /\ RQStep(name, [NoArgs EXCEPT !.x = x], r.q, Append(golden, x), FALSE)
        /\ steps' = steps + 1
        /\ UNCHANGED fault

\* push or emplace with tail_ at the end of data_: placement new writes one
\* slot past the storage, which is undefined.  Either the write lands in
\* the memory behind data_ and the call goes on to advance_tail, or the
\* process is stopped.
PushLikeOverrun(name) ==
    LET x == steps + 1
        e == ensure_capacity(rq, -1).q
    IN  /\ steps < MaxPushes
        /\ e.tail_ >= capacity(e)
        /\ \E outcome \in {"overrun", "aborted"} :
              /\ fault' = outcome
              /\ IF outcome = "overrun"
                 THEN RQStep(name, [NoArgs EXCEPT !.x = x], advance_tail(e),
                             Append(golden, x), FALSE)
                 ELSE RQStep(name, [NoArgs EXCEPT !.x = x], rq, golden, FALSE)
        /\ steps' = steps + 1

\* The copies of grow_to that are let throw: the first and the last.
RelocationFaults(q) == IF full(q) /\ q.count_ > 0 THEN {0, q.count_ - 1} ELSE {}

\* push or emplace leaving by an exception: of the new element's
\* constructor (at = -1), or of the copy of element at in grow_to.
PushLikeThrows(name) ==
    LET x == steps + 1
    IN  /\ steps < MaxPushes
        /\ \E at \in {-1} \cup RelocationFaults(rq) :
              LET r == IF name = "push" THEN push(rq, x, at, at < 0)
                                        ELSE emplace(rq, x, at, at < 0)
              IN  RQStep(name, [NoArgs EXCEPT !.x = x, !.at = at], r.q, golden, TRUE)
        /\ UNCHANGED <<steps, fault>>

RQPush == PushLike("push")
RQEmplace == PushLike("emplace")
RQPushOverrun == PushLikeOverrun("push")
RQEmplaceOverrun == PushLikeOverrun("emplace")
RQPushThrows == PushLikeThrows("push")
RQEmplaceThrows == PushLikeThrows("emplace")

\* if (!q.empty()) q.pop()
RQPop ==
    /\ ~empty(rq)
    /\ RQStep("pop", NoArgs, pop(rq),
              IF golden = <<>> THEN golden ELSE Tail(golden), FALSE)
    /\ UNCHANGED <<steps, fault>>

\* q.reserve(n)
RQReserve ==
    \E n \in ReserveArgs : \E c \in next_power_of_two(n) :
        /\ RQStep("reserve", [NoArgs EXCEPT !.n = n], reserve(rq, n, c), golden, FALSE)
        /\ UNCHANGED <<steps, fault>>

\* q.shrink_to_fit()
RQShrinkToFit ==
    \E c \in next_power_of_two(rq.count_) :
        /\ RQStep("shrink_to_fit", NoArgs, shrink_to_fit(rq, c), golden, FALSE)
        /\ UNCHANGED <<steps, fault>>

NextRQ ==
    \/ RQPush \/ RQEmplace \/ RQPushOverrun \/ RQEmplaceOverrun
    \/ RQPushThrows \/ RQEmplaceThrows
    \/ RQPop \/ RQReserve \/ RQShrinkToFit

SpecRQ == InitRQ /\ [][NextRQ]_vars

(***************************************************************************)
(* An IndexList<T> and the std::list<T> of test.cc, driven by the same     *)
(* operations.  The pops are called on a non-empty list only (their        *)
(* asserts).                                                               *)
(***************************************************************************)
InitIL ==
    /\ il = IndexList /\ golden_list = <<>>
    /\ rq = <<>> /\ golden = <<>> /\ fault = "none"
    /\ NoBits
    /\ op = "init" /\ args = NoArgs /\ pre = il /\ thrown = FALSE /\ steps = 0

\* An operation on the list: l the list after it, g the std::list.
ILStep(name, a, l, g) ==
    /\ op' = name /\ args' = a /\ pre' = il
    /\ il' = l /\ golden_list' = g /\ thrown' = FALSE
    /\ UNCHANGED <<bitsVars, steps, rq, golden, fault>>

ILPushBack ==
    \E v \in Values :
        /\ list_size(il) < MaxListSize
        /\ ILStep("push_back", [NoArgs EXCEPT !.x = v], push_back(il, v),
                  Append(golden_list, v))

ILPushFront ==
    \E v \in Values :
        /\ list_size(il) < MaxListSize
        /\ ILStep("push_front", [NoArgs EXCEPT !.x = v], push_front(il, v),
                  <<v>> \o golden_list)

ILEmplaceBack ==
    \E v \in Values :
        /\ list_size(il) < MaxListSize
        /\ ILStep("emplace_back", [NoArgs EXCEPT !.x = v], emplace_back(il, v),
                  Append(golden_list, v))

ILEmplaceFront ==
    \E v \in Values :
        /\ list_size(il) < MaxListSize
        /\ ILStep("emplace_front", [NoArgs EXCEPT !.x = v], emplace_front(il, v),
                  <<v>> \o golden_list)

\* if (!il.empty()) pop_back
ILPopBack ==
    /\ ~list_empty(il)
    /\ ILStep("pop_back", NoArgs, pop_back(il),
              SubSeq(golden_list, 1, Len(golden_list) - 1))

\* if (!il.empty()) pop_front
ILPopFront ==
    /\ ~list_empty(il)
    /\ ILStep("pop_front", NoArgs, pop_front(il),
              SubSeq(golden_list, 2, Len(golden_list)))

\* il.remove_if(pred); golden.remove_if(pred)
ILRemoveIf ==
    \E P \in Predicates :
        ILStep("remove_if", [NoArgs EXCEPT !.src = P], remove_if(il, P),
               SelectSeq(golden_list, LAMBDA x : x \notin P))

\* il.erase(idx), idx the index of a live node; golden.erase of the element
\* at the same position
ILErase ==
    \E p \in 1 .. Len(LiveIndices(il)) :
        LET idx == LiveIndices(il)[p]
        IN  ILStep("erase", [NoArgs EXCEPT !.idx = idx, !.pos = p], erase(il, idx),
                   SubSeq(golden_list, 1, p - 1)
                       \o SubSeq(golden_list, p + 1, Len(golden_list)))

NextIL ==
    \/ ILPushBack \/ ILPushFront \/ ILEmplaceBack \/ ILEmplaceFront
    \/ ILPopBack \/ ILPopFront \/ ILRemoveIf \/ ILErase

SpecIL == InitIL /\ [][NextIL]_vars

(***************************************************************************)
(* Properties.                                                             *)
(***************************************************************************)
InSlice(p) == lo <= p /\ p < lo + W

SliceBitWrites == {"slice_index_assign", "slice_set", "slice_index_flip"}
SliceAssigns == {"slice_assign_scalar", "slice_assign_bitset",
                 "slice_assign_self", "slice_assign_other"}

\* Bit i of the source of the assignment performed last: of the scalar or
\* the bitset itself, or of the source slice (bit srcLo + i of its vector,
\* and 0 from the slice's width on).
SourceBit(i) ==
    IF op \in {"slice_assign_self", "slice_assign_other"}
    THEN i < args.srcW /\ (args.srcLo + i) \in args.src
    ELSE i \in args.src

\* The number of bits the source carries.
SourceWidth ==
    IF op \in {"slice_assign_self", "slice_assign_other"} THEN args.srcW ELSE args.srcN

\* C1: a write through the slice (a whole-slice assignment from a scalar, a
\* bitset or a slice, or a single-bit set or flip) leaves every bit of the
\* vector outside [lo, lo + W) as it was.
C1_NonInterference ==
    op \in SliceBitWrites \cup SliceAssigns =>
        \A p \in 0 .. N - 1 : ~InSlice(p) => (p \in data <=> p \in pre)

\* An assignment changed the slice, from a source with 1 bits beyond the
\* slice's width, next to 1 bits of the vector above the slice that stayed.
C1_Witness ==
    /\ op = "slice_assign_bitset" /\ ~thrown /\ data # pre
    /\ \E i \in args.src : i >= W
    /\ \E p \in pre : p >= lo + W

\* C2: after slice = src, src carrying at least W bits, bit lo + i of the
\* vector is bit i of src for every i < W.
C2_AssignTakesSource ==
    (op \in SliceAssigns /\ SourceWidth >= W) =>
        \A i \in 0 .. W - 1 : (lo + i) \in data <=> SourceBit(i)

\* C3: slice = another slice of the same vector, overlapping or not, leaves
\* the vector as copying the source to a temporary first does: the slice's
\* bits are the source range's bits from before the assignment (0 from the
\* source's width on), the rest is as before.
C3_SelfAssignUsesOldSource ==
    op = "slice_assign_self" =>
        /\ ~thrown
        /\ \A p \in 0 .. N - 1 :
              p \in data <=>
                  IF InSlice(p)
                  THEN p - lo < args.srcW /\ (args.srcLo + (p - lo)) \in pre
                  ELSE p \in pre

\* The source range starts below the destination and overlaps it, and the
\* assignment changed the vector.
C3_Witness ==
    /\ op = "slice_assign_self" /\ data # pre
    /\ args.srcLo < lo /\ lo < args.srcLo + args.srcW

\* C4: converting the slice to a bitset of width M returns the vector whose
\* bit i is bit lo + i of the parent for i < min(W, M), and 0 for the rest.
C4_ConvertYieldsSliceBits ==
    op = "slice_convert" =>
        /\ ~thrown
        /\ \A i \in 0 .. args.M - 1 : i \in ret <=> (i < W /\ (lo + i) \in data)

\* C5: make_bitset from M bits to N > M bits returns the source value, its
\* bits [M, N) zero.
C5_ZeroExtends ==
    (op = "make_bitset" /\ args.srcN < N) => (~thrown /\ ret = args.src)

\* C6: make_bitset from M bits to N < M bits returns the low N bits of the
\* source.
C6_Truncates ==
    (op = "make_bitset" /\ args.srcN > N) =>
        (~thrown /\ ret = {i \in args.src : i < N})

\* C7: a whole-slice read to any width and a whole-slice assignment from a
\* scalar, a bitset or a slice complete with a result: none raises an error.
C7_NoError ==
    op \in SliceAssigns \cup {"slice_convert"} => ~thrown

\* C8: make_bitmask<N>(w), 0 <= w <= N, has its 1 bits exactly at [0, w),
\* so w of them: none for w = 0, all N for w = N.
C8_MaskIsLowBits ==
    op = "make_bitmask" =>
        /\ \A p \in 0 .. N - 1 : p \in ret <=> p < args.w
        /\ Cardinality(ret) = args.w

\* The doubling path, ending on a shift shorter than the run built so far
\* (N = 128, w = 70).
C8_Witness ==
    op = "make_bitmask" /\ N = 128 /\ args.w = 70 /\ Cardinality(ret) = 70

\* C9: whatever was done to the vector before, bit idx of the slice reads as
\* bit lo + idx of the vector reads now.
C9_ReadConsistency ==
    op = "slice_index" => (bit <=> bits_test(data, lo + args.idx))

\* A read of a 1 bit through a slice with lo > 0, after another operation.
C9_Witness ==
    op = "slice_index" /\ steps > 1 /\ lo > 0 /\ args.idx > 0 /\ bit

\* C10: slice[idx] = val and slice.set(idx, val) make bit lo + idx of the
\* vector val, slice[idx].flip() inverts it, and the vector is otherwise as
\* before.
C10_BitWriteChangesOneBit ==
    /\ op \in {"slice_index_assign", "slice_set"} =>
          \A p \in 0 .. N - 1 :
              p \in data <=> IF p = lo + args.idx THEN args.val ELSE p \in pre
    /\ op = "slice_index_flip" =>
          \A p \in 0 .. N - 1 :
              p \in data <=> IF p = lo + args.idx THEN p \notin pre ELSE p \in pre

\* A flip through a slice with lo > 0 at its last index.
C10_Witness ==
    op = "slice_index_flip" /\ lo > 0 /\ args.idx = W - 1 /\ data # pre

\* C11: make_bitset between equal widths (M == N) returns its source
\* unchanged, whatever the width and whatever bits are set, and raises no
\* error.
C11_EqualWidthIsIdentity ==
    (op = "make_bitset" /\ args.srcN = N) => (~thrown /\ ret = args.src)

\* A vector wider than a word, with a 1 bit at or above position 64,
\* converted to its own width.
C11_Witness ==
    /\ op = "make_bitset" /\ args.srcN = N /\ N > WORD_BITS
    /\ \E i \in ret : i >= WORD_BITS

\* C12: slice<HI, LO>(), slice_lo<HI - LO + 1>(LO) and slice_hi<HI - LO + 1>(HI)
\* denote the same view of the vector: whichever made the slice, it is the
\* range [LO, HI], a read through it yields the vector's bits LO + i, and a
\* write through it changes the vector's bits [LO, HI] and no other.
C12_FactoriesSameView ==
    (made.by # "none" /\ 0 <= made.LO /\ made.HI < N) =>
        /\ lo = made.LO /\ lo + W - 1 = made.HI
        /\ op = "slice_index" => (bit <=> (made.LO + args.idx) \in data)
        /\ (op = "slice_convert" /\ ~thrown) =>
              \A i \in 0 .. args.M - 1 :
                  i \in ret <=> (made.LO + i <= made.HI /\ (made.LO + i) \in data)
        /\ op = "slice_set" =>
              \A p \in 0 .. N - 1 :
                  p \in data <=> IF p = made.LO + args.idx THEN args.val ELSE p \in pre
        /\ op = "slice_index_flip" =>
              \A p \in 0 .. N - 1 :
                  p \in data <=> IF p = made.LO + args.idx THEN p \notin pre ELSE p \in pre
        /\ op \in SliceAssigns =>
              IF thrown THEN data = pre
              ELSE \A p \in 0 .. N - 1 :
                      p \in data <=> IF made.LO <= p /\ p <= made.HI
                                     THEN SourceBit(p - made.LO)
                                     ELSE p \in pre

\* An assignment through the slice made by slice_hi<65>(104) changed the
\* vector's bits [40, 104].
C12_Witness ==
    /\ made = [by |-> "slice_hi", HI |-> 104, LO |-> 40]
    /\ op = "slice_assign_bitset" /\ ~thrown /\ data # pre

\* C13: a slice out of the vector's range (lo + W > N: slice_lo<W>(lo) with
\* lo > N - W, slice_hi<W>(hi) with hi + 1 < W or hi >= N) is rejected when
\* it is made: the factory call fails, and nothing is read or written
\* through the slice.
C13_OutOfRangeSliceRejected ==
    (made.by # "none" /\ ~SliceInRange) => (op = made.by /\ thrown)

\* C14: make_bitmask<N>(w) with w > N is reported as a contract error and
\* returns no mask.
C14_OverwideMaskRejected ==
    op = "make_bitmask_over" => thrown

\* The operations of the queue that are compared with the deque.
QueueOps == {"push", "emplace", "pop", "reserve", "shrink_to_fit"}

\* The elements of the queue from front to back.
Contents(q) == [i \in 1 .. q.count_ |-> q.data_[src_index(q, i - 1) + 1]]

\* C15: after every push, emplace, pop, reserve(n) and shrink_to_fit the
\* queue's size(), empty(), front() and back() are those of a FIFO given the
\* same operations.
C15_MatchesFifo ==
    (op \in QueueOps /\ fault # "aborted") =>
        /\ size(rq) = Len(golden)
        /\ empty(rq) <=> golden = <<>>
        /\ golden # <<>> =>
              /\ front(rq) = Head(golden)
              /\ back(rq) = golden[Len(golden)]

\* C16: capacity() is a power of two in every state of the queue.
C16_CapacityPowerOfTwo ==
    is_power_of_two(capacity(rq))

\* C17: a push or emplace that leaves by an exception of an element's
\* constructor (of the new element, or of one relocated while growing)
\* leaves the queue's size and its elements from front to back as they were.
C17_ThrowLeavesQueue ==
    (op \in {"push", "emplace"} /\ thrown) =>
        /\ size(rq) = size(pre)
        /\ Contents(rq) = Contents(pre)

\* p is the smallest power of two that is at least n.
SmallestPowerOfTwo(p, n) ==
    is_power_of_two(p) /\ p >= n /\ (p = 1 \/ p \div 2 < n)

\* C18: after reserve(n), capacity() >= n; for n above the capacity before,
\* the capacity is the smallest power of two >= n, otherwise it is as before.
C18_ReserveCapacity ==
    op = "reserve" =>
        /\ capacity(rq) >= args.n
        /\ IF args.n > capacity(pre)
           THEN SmallestPowerOfTwo(capacity(rq), args.n)
           ELSE capacity(rq) = capacity(pre)

\* C19: shrink_to_fit on an empty queue releases the storage; on a
\* non-empty queue with size() < capacity() / 4 and capacity() > 16 it
\* makes the capacity max(size() * 2, 16), a power of two; otherwise the
\* capacity is as before.
C19_ShrinkCapacity ==
    op = "shrink_to_fit" =>
        IF empty(pre) THEN capacity(rq) = 0
        ELSE IF size(pre) < capacity(pre) \div 4 /\ capacity(pre) > SHRINK_FLOOR
             THEN /\ capacity(rq) = Max(size(pre) * 2, SHRINK_FLOOR)
                  /\ is_power_of_two(capacity(rq))
             ELSE capacity(rq) = capacity(pre)

\* The operations of the list that are compared with std::list.
ListOps == {"push_back", "push_front", "emplace_back", "emplace_front",
            "pop_back", "pop_front", "remove_if"}

\* The values met walking the list from front_index() by next_index(), as
\* check_index_list walks it; at most fuel of them.
RECURSIVE WalkFrom(_, _, _)
WalkFrom(l, idx, fuel) ==
    IF idx = npos \/ fuel = 0 THEN <<>>
    ELSE LET opt == next_index(l, idx)
         IN  <<list_at(l, idx)>>
                 \o WalkFrom(l, IF opt # nullopt THEN opt ELSE npos, fuel - 1)

\* A walk that does not end within the nodes of the list yields more values
\* than the list has nodes.
Walk(l) == WalkFrom(l, front_index(l), Len(l.nodes_) + 1)

\* C20: after every push_back, push_front, emplace_back, emplace_front,
\* pop_back, pop_front and remove_if the list's size(), empty(), front(),
\* back() and the sequence of its elements, walked from front_index() by
\* next_index(), are those of a doubly linked list given the same operations.
C20_MatchesList ==
    op \in ListOps =>
        /\ list_size(il) = Len(golden_list)
        /\ list_empty(il) <=> golden_list = <<>>
        /\ golden_list # <<>> =>
              /\ list_front(il) = Head(golden_list)
              /\ list_back(il) = golden_list[Len(golden_list)]
        /\ Walk(il) = golden_list

\* remove_if took the middle element out of a list of three whose nodes
\* were not in list order, and left the other two.
C20_Witness ==
    /\ op = "remove_if" /\ list_size(pre) = 3 /\ list_size(il) = 2
    /\ pre.head_ # 0
    /\ Walk(pre)[2] \in args.src
    /\ Walk(il) = <<Walk(pre)[1], Walk(pre)[3]>>

\* C22: after slice = src with src carrying fewer bits than the slice (a
\* 64-bit scalar into a slice wider than 64 bits, a source slice narrower
\* than the destination), bit lo + i of the vector is bit i of src for i
\* below the source's width and 0 for every other i < W.
C22_NarrowSourceZeroFills ==
    (op \in SliceAssigns /\ SourceWidth < W) =>
        \A i \in 0 .. W - 1 :
            (lo + i) \in data <=> (i < SourceWidth /\ SourceBit(i))

\* C23: in make_bitset<N, M> with M > 64 and M # N, iteration k of the chunk
\* loop (k below the word counts of both widths) takes as its chunk the
\* source's bits [64k, 64k + 64), the bits above dropped, and ORs it into
\* the destination at bit 64k.
C23_ChunkIsSourceWord ==
    op = "chunk" =>
        LET k == IF thrown THEN steps ELSE steps - 1
        IN  /\ ~thrown
            /\ ret = {j \in 0 .. WORD_BITS - 1 : (k * WORD_BITS + j) \in args.src}
            /\ data = pre \cup {p \in 0 .. N - 1 :
                                   /\ k * WORD_BITS <= p /\ p < (k + 1) * WORD_BITS
                                   /\ p \in args.src}

(***************************************************************************)
(* The doubling loop of make_bitmask, iteration by iteration.              *)
(***************************************************************************)
\* The mask is a prefix: no 0 bit below a 1 bit.
IsPrefix(mask) == \A i \in mask : \A j \in 0 .. i : j \in mask

\* C24: in the w >= 64 path of make_bitmask, with n the number of bits
\* covered at the start of an iteration, the set bits of the mask are
\* exactly [0, n) before the iteration and exactly [0, min(2n, w)) after
\* it; the mask never has a 0 bit below a 1 bit, and no bit at or above w
\* is ever set.
C24_DoublingKeepsPrefix ==
    mask_n >= WORD_BITS =>
        /\ (op \in {"init", "iter"} /\ mask_n < args.w) => data = 0 .. mask_n - 1
        /\ op = "iter" =>
               LET n == mask_n \div 2
               IN  /\ pre = 0 .. n - 1
                   /\ data = 0 .. Min(2 * n, args.w) - 1
        /\ IsPrefix(data)
        /\ \A i \in data : i < args.w

\* An iteration whose shift is w - n, below n: the last one for w = N = 199
C24_Witness ==
    /\ op = "iter" /\ steps = 2 /\ N = 199 /\ args.w = 199
    /\ pre = 0 .. 127 /\ data = 0 .. 198

\* ceil(log2(w / 64)): the least k with 64 * 2^k >= w
RECURSIVE CeilLog2From(_, _)
CeilLog2From(w, k) ==
    IF WORD_BITS * 2^k >= w THEN k ELSE CeilLog2From(w, k + 1)

CeilLog2Words(w) == CeilLog2From(w, 0)

\* C25: for every w with 64 <= w <= N the doubling loop terminates, after
\* exactly ceil(log2(w / 64)) iterations (0 for w = 64).
C25_LoopTerminates ==
    /\ [](mask_n >= WORD_BITS =>
             /\ steps <= CeilLog2Words(args.w)
             /\ op = "return" => steps = CeilLog2Words(args.w))
    /\ <>(op = "return")

\* The loop has returned after two iterations, the second one not needed
\* by a shift of a whole n: w = 129
C25_Witness ==
    /\ op = "return" /\ steps = 2 /\ args.w = 129 /\ ret = 0 .. 128

(***************************************************************************)
(* RingQueue: what a change of capacity keeps, the indices, and where a    *)
(* push writes.                                                            *)
(***************************************************************************)
\* What front() and pop() return until the queue is empty.
RECURSIVE Drain(_)
Drain(q) == IF empty(q) THEN <<>> ELSE <<front(q)>> \o Drain(pop(q))

\* The queue after k calls of pop().
RECURSIVE PopN(_, _)
PopN(q, k) == IF k = 0 \/ empty(q) THEN q ELSE PopN(pop(q), k - 1)

\* The slot push constructs the new element in, after ensure_capacity.
PushSlot(q) == ensure_capacity(q, -1).q.tail_

\* The slots of data_ that hold a live element, after ensure_capacity.
LiveSlots(q) ==
    LET e == ensure_capacity(q, -1).q
    IN  {src_index(e, i) : i \in 0 .. e.count_ - 1}

\* push(x) writes inside the storage and x comes out behind the elements
\* the queue held.
PushedBehind(q, x) ==
    /\ PushSlot(q) < capacity(ensure_capacity(q, -1).q)
    /\ Drain(push(q, x, -1, FALSE).q) = Append(Drain(q), x)

\* C26: reserve(n) and shrink_to_fit() leave the logical contents of the
\* queue unchanged: the size is the same, front() and pop() afterwards
\* return the same sequence, and an element pushed afterwards (at once, or
\* after some pops) is placed behind the elements as it would have been
\* without the call.
C26_CapacityChangeKeepsContents ==
    (op \in {"reserve", "shrink_to_fit"} /\ fault = "none") =>
        /\ size(rq) = size(pre)
        /\ Drain(rq) = Drain(pre)
        /\ \A k \in 0 .. size(pre) :
              PushedBehind(PopN(pre, k), steps + 1) =>
                  PushedBehind(PopN(rq, k), steps + 1)

\* C27: in every state of the queue with capacity() > 0: head_ and tail_
\* are below capacity(), count_ is at most capacity(), cap_mask_ is
\* capacity() - 1, and tail_ is (head_ + count_) mod capacity().
C27_IndicesInsideStorage ==
    (capacity(rq) > 0 /\ fault = "none") =>
        /\ rq.head_ < capacity(rq)
        /\ rq.tail_ < capacity(rq)
        /\ rq.count_ <= capacity(rq)
        /\ rq.cap_mask_ = capacity(rq) - 1
        /\ rq.tail_ = (rq.head_ + rq.count_) % capacity(rq)

\* C28: every push and emplace constructs the new element at an index of
\* the storage strictly below capacity() that holds no live element.
C28_PushWritesFreeSlot ==
    (op \in {"push", "emplace"} /\ ~thrown) =>
        /\ PushSlot(pre) < capacity(ensure_capacity(pre, -1).q)
        /\ PushSlot(pre) \notin LiveSlots(pre)

(***************************************************************************)
(* IndexList: erase, remove_if and the links.                              *)
(***************************************************************************)
\* C21: erase(idx) on a live node removes exactly that element: size() goes
\* down by one, the remaining elements keep their relative order and their
\* values, the predecessor and the successor of the node become adjacent,
\* and front_index() / back_index() move to the neighbour when the first /
\* last element is erased, both being npos when the list becomes empty.
C21_EraseRemovesOne ==
    op = "erase" =>
        LET idx == args.idx
            p == pre.nodes_[idx + 1].prev
            s == pre.nodes_[idx + 1].next
            after == LiveIndices(il)
        IN  /\ list_size(il) = list_size(pre) - 1
            /\ after = SelectSeq(LiveIndices(pre), LAMBDA i : i # idx)
            /\ Len(after) = list_size(il)
            /\ \A k \in 1 .. Len(after) :
                  list_at(il, after[k]) = list_at(pre, after[k])
            /\ p # npos => il.nodes_[p + 1].next = s
            /\ s # npos => il.nodes_[s + 1].prev = p
            /\ front_index(il) = IF front_index(pre) = idx THEN s ELSE front_index(pre)
            /\ back_index(il) = IF back_index(pre) = idx THEN p ELSE back_index(pre)
            /\ list_empty(il) => front_index(il) = npos /\ back_index(il) = npos

\* The last of three elements was erased, its node not the last of nodes_:
\* back_index() moved to the predecessor.
C21_Witness ==
    /\ op = "erase" /\ list_size(pre) = 3 /\ args.pos = 3
    /\ args.idx = back_index(pre) /\ args.idx # Len(pre.nodes_) - 1
    /\ back_index(il) = pre.nodes_[args.idx + 1].prev
    /\ LiveIndices(il) = SubSeq(LiveIndices(pre), 1, 2)

\* C29: remove_if(pred) calls pred exactly once on each element, in front
\* to back order, removes exactly the elements it returned true for, leaves
\* the others in their order, and terminates; also when the head, the tail
\* or a run of consecutive elements is removed.
C29_RemoveIfVisitsEachOnce ==
    op = "remove_if" =>
        LET P == args.src
            before == LiveIndices(pre)
            calls == PredCalls(pre, pre.head_, P, Len(pre.nodes_) + 1)
            after == LiveIndices(il)
        IN  /\ calls = before
            /\ Len(calls) = list_size(pre)
            /\ after = SelectSeq(before, LAMBDA i : list_at(pre, i) \notin P)
            /\ list_size(il) = Len(after)
            /\ \A k \in 1 .. Len(after) :
                  list_at(il, after[k]) = list_at(pre, after[k])

\* Three elements in a row, the head and the tail among them, all removed
C29_Witness ==
    /\ op = "remove_if" /\ list_size(pre) = 3
    /\ \A k \in 1 .. 3 : Walk(pre)[k] \in args.src
    /\ list_empty(il) /\ LiveIndices(il) = <<>>

\* C30: after any sequence of operations on live nodes the links of the
\* list are consistent: the list is empty iff head_ and tail_ are both
\* npos; otherwise nodes_[head_].prev and nodes_[tail_].next are npos, every
\* live node x with a next y has nodes_[y].prev == x, and following next
\* from head_ visits exactly size() distinct nodes and ends at tail_.
C30_LinksConsistent ==
    LET live == LiveIndices(il)
    IN  /\ list_empty(il) <=> (il.head_ = npos /\ il.tail_ = npos)
        /\ ~list_empty(il) =>
              /\ il.nodes_[il.head_ + 1].prev = npos
              /\ il.nodes_[il.tail_ + 1].next = npos
              /\ \A k \in 1 .. Len(live) :
                    LET y == il.nodes_[live[k] + 1].next
                    IN  y # npos => il.nodes_[y + 1].prev = live[k]
              /\ Len(live) = list_size(il)
              /\ \A j, k \in 1 .. Len(live) : live[j] = live[k] => j = k
              /\ live[Len(live)] = il.tail_

\* A list of two left by pop_front, its head a node that had the popped
\* node as predecessor, its nodes not in the order of nodes_
C30_Witness ==
    /\ op = "pop_front" /\ list_size(il) = 2
    /\ pre.nodes_[il.head_ + 1].prev = pre.head_
    /\ il.nodes_[il.head_ + 1].prev = npos
    /\ il.head_ > il.tail_
    /\ LiveIndices(il) = <<il.head_, il.tail_>>

(***************************************************************************)
(* The slice as a view: what a read depends on, the round trip through a   *)
(* write and a read, and the order of writes to disjoint slices.           *)
(***************************************************************************)
\* The parent vectors that have the bits of d inside [l, l + Wt) and the
\* bits of some input value outside.
SameInside(d, Nt, Wt, l) ==
    LET inside == l .. l + Wt - 1
    IN  {(d \cap inside) \cup (o \ inside) : o \in Patterns(Nt)}

\* C31: the outcome of a whole-slice read depends only on the parent's bits
\* inside the slice: on every parent that has the same bits in
\* [lo, lo + W), converting the slice to M bits gives the same value, or
\* raises an error on both.
C31_ReadDependsOnSliceOnly ==
    op = "slice_convert" =>
        \A d2 \in SameInside(data, N, W, lo) :
            BitSlice_to_bitset(args.M, N, W, d2, lo) = [thrown |-> thrown, val |-> ret]

\* C32: write-then-read round trip: when S = x on the slice S of width W is
\* followed by the conversion of S to a std::bitset<W>, the conversion
\* returns x mod 2^W (the low W bits of the source), for every parent width,
\* every offset and every prior value of the parent.
C32_WriteThenReadRoundTrip ==
    [][(/\ op \in SliceAssigns /\ ~thrown
        /\ op' = "slice_convert" /\ args'.M = W)
           => (/\ ~thrown'
               /\ ret' = {i \in 0 .. W - 1 : SourceBit(i)})]_vars

\* C33: whole-slice assignments to two slices of one vector with disjoint
\* ranges, each from a value that is not a view of that vector, commute:
\* made in either order they leave the same vector, and each has the same
\* outcome (completes or raises) in both orders.
C33_DisjointAssignsCommute ==
    (pair # NoPair /\ Len(pair.done) = 2) =>
        LET first == pair[pair.done[1]]
            second == pair[pair.done[2]]
            swapped1 == AssignTo(N, pair.start, second)
            swapped2 == AssignTo(N, swapped1.data, first)
        IN  /\ data = swapped2.data
            /\ thrown = swapped1.thrown
            /\ swapped2.thrown = AssignTo(N, pair.start, first).thrown

\* Both assignments completed, to slices that meet at the word boundary of
\* a vector of 128 bits, the upper one first; each changed its slice.
C33_Witness ==
    /\ pair # NoPair /\ pair.done = <<"b", "a">> /\ ~thrown
    /\ N = 128 /\ pair.a.lo + pair.a.W = pair.b.lo /\ pair.b.lo = WORD_BITS
    /\ pre # pair.start /\ data # pre
    /\ ~AssignTo(N, pair.start, pair.b).thrown
    /\ data = AssignTo(N, AssignTo(N, pair.start, pair.a).data, pair.b).data

=============================================================================
